---- MODULE Spec2Model ----
(***************************************************************************)
(* Model of inventory_tag_sample_svg.py: generate_tag_pair splits an       *)
(* inventory tag id into two marker indices, lays two marker bitmaps out   *)
(* on a canvas, hands the canvas to the vectorizer through a temporary     *)
(* file and splices a text label into the returned SVG document.           *)
(*                                                                         *)
(* A document is a sequence of string tokens; a bitmap is its shape        *)
(* <<height, width>> (the composer only places bitmaps, it never reads     *)
(* their pixels).  The marker generator, cv2.imwrite and pixels2svg are    *)
(* external calls: each returns some value of its result type or raises.   *)
(***************************************************************************)
EXTENDS Integers, Sequences, FiniteSets, TLC

VARIABLES pc, error, stages,
          inventory_tag_id, spacing, font_size, top_padding, output_svg_path,
          tag_standard1_id, tag_standard2_id,
          shape1, shape2,
          width, height, text_height, rect1, rect2,
          temp_exists, temp_created,
          svg_base, svg, written, returned

vars == <<pc, error, stages,
          inventory_tag_id, spacing, font_size, top_padding, output_svg_path,
          tag_standard1_id, tag_standard2_id,
          shape1, shape2,
          width, height, text_height, rect1, rect2,
          temp_exists, temp_created,
          svg_base, svg, written, returned>>

-----------------------------------------------------------------------------
(* Program constants *)

A_COUNT == 2115
B_COUNT == 48714
H_MARGIN == 200
TEXT_PAD == 20
TEXT_ROWS == 4
LABEL_DROP == 10
DEFAULT_SPACING == 50
DEFAULT_FONT_SIZE == 40
DEFAULT_TOP_PADDING == 50
SAMPLE_TAG_ID == 2

ClosingTag == <<"</svg>">>

(* Bounds of the model *)

MaxDim == 2
MaxDocLen == 2

-----------------------------------------------------------------------------
(* Input domains *)

None == "None"
SamplePath == "laptop_tagid_2.svg"

IdOffsets == {-1, 0, 1, 2}
IdInputs == {k * B_COUNT + d : k \in {0, 1, A_COUNT}, d \in IdOffsets}
SpacingInputs == {-2, -1, 0, DEFAULT_SPACING}
TopPaddingInputs == {-3, -2, -1, 0, DEFAULT_TOP_PADDING}
FontSizeInputs == {-21, 30, 31, DEFAULT_FONT_SIZE, 100}
PathInputs == {None, SamplePath}

Shapes == (1..MaxDim) \X (1..MaxDim)

DocTokens == {"<svg>", "<rect/>", "</svg>"}
SeqsUpTo(S, n) == UNION {[1..k -> S] : k \in 0..n}
Docs == SeqsUpTo(DocTokens, MaxDocLen)

(* The calls explored: the id swept with the default layout, and the      *)
(* layout parameters swept for the id of the module's own call.           *)
Calls ==
    {[id |-> i, spacing |-> DEFAULT_SPACING, font_size |-> DEFAULT_FONT_SIZE,
      top_padding |-> DEFAULT_TOP_PADDING, path |-> p] :
        i \in IdInputs, p \in PathInputs}
    \cup
    {[id |-> SAMPLE_TAG_ID, spacing |-> s, font_size |-> f,
      top_padding |-> t, path |-> p] :
        s \in SpacingInputs, f \in FontSizeInputs,
        t \in TopPaddingInputs, p \in PathInputs}

-----------------------------------------------------------------------------
(* Pure parts of generate_tag_pair *)

Max(a, b) == IF a >= b THEN a ELSE b

\* floor division, as Python's // (TLA+'s \div floors as well)
FloorDiv(a, b) == a \div b

\* variant: the upper bound taken as inclusive
ValidId_Inclusive(id) == 0 <= id /\ id <= A_COUNT * B_COUNT

ValidId(id) == 0 <= id /\ id < A_COUNT * B_COUNT

\* variant: the radix of the other family
Tag1Id_ByACount(id) == FloorDiv(id, A_COUNT)

Tag1Id(id) == FloorDiv(id, B_COUNT)
Tag2Id(id) == id % B_COUNT

CanvasWidth(w1, w2) == Max(w1, w2) + H_MARGIN
TextHeight(fs) == fs + TEXT_PAD
\* variant: the text band counted once
CanvasHeight_OneBand(tp, h1, sp, h2, th) == tp + h1 + sp + h2 + th

CanvasHeight(tp, h1, sp, h2, th) == tp + h1 + sp + h2 + (th * TEXT_ROWS)

TagX(w, mw) == FloorDiv(w - mw, 2)
Tag1Top(tp) == tp
\* variant: the first marker's height left out
Tag2Top_NoHeight(tp, h1, sp, th) == tp + sp + th

Tag2Top(tp, h1, sp, th) == tp + h1 + sp + th

\* a slice bound as Python and numpy normalise it (step 1)
NormIndex(i, n) ==
    IF i < 0 THEN (IF i + n < 0 THEN 0 ELSE i + n)
    ELSE IF i > n THEN n ELSE i

SliceStart(lo, hi, n) == NormIndex(lo, n)
SliceStop(lo, hi, n) == Max(NormIndex(lo, n), NormIndex(hi, n))

\* numpy assignment: the source extent equals the target's or is 1
Broadcasts(src, dst) == src = dst \/ src = 1

\* the canvas region combined_img[top:top+h, left:left+w]
Region(top, h, left, w, H, W) ==
    [r0 |-> SliceStart(top, top + h, H), r1 |-> SliceStop(top, top + h, H),
     c0 |-> SliceStart(left, left + w, W), c1 |-> SliceStop(left, left + w, W)]

AssignOk(reg, h, w) ==
    /\ Broadcasts(h, reg.r1 - reg.r0)
    /\ Broadcasts(w, reg.c1 - reg.c0)

NoRect == [r0 |-> 0, r1 |-> 0, c0 |-> 0, c1 |-> 0]

\* s[lo:hi] on a document
Slice(s, lo, hi) ==
    LET a == SliceStart(lo, hi, Len(s))
        b == SliceStop(lo, hi, Len(s))
    IN  SubSeq(s, a + 1, b)

Occurs(s, sub, i) ==
    /\ 0 <= i
    /\ i + Len(sub) <= Len(s)
    /\ SubSeq(s, i + 1, i + Len(sub)) = sub

\* variant: str.find, the lowest index
RFind_First(s, sub) ==
    LET hits == {i \in 0..Len(s) : Occurs(s, sub, i)}
    IN  IF hits = {} THEN -1
        ELSE CHOOSE i \in hits : \A j \in hits : i <= j

\* str.rfind: the highest index where sub occurs, -1 when it does not
RFind(s, sub) ==
    LET hits == {i \in 0..Len(s) : Occurs(s, sub, i)}
    IN  IF hits = {} THEN -1
        ELSE CHOOSE i \in hits : \A j \in hits : j <= i

LabelY(tp, h1, sp, th, h2) == tp + h1 + sp + th + h2 + th + LABEL_DROP
LabelX(w) == FloorDiv(w, 2)
LabelFontSize(fs) == fs * 2

\* the f-string of lines 84-92, one token per piece
TextElements(x, y, size, id) ==
    <<"<!-- Text Labels -->", "<text>", ToString(x), ToString(y),
      ToString(size), ToString(id), "</text>">>

Splice(doc, pos, text) ==
    Slice(doc, 0, pos) \o text \o Slice(doc, pos, Len(doc))

InjectLabel(doc, x, y, size, id) ==
    Splice(doc, RFind(doc, ClosingTag), TextElements(x, y, size, id))

-----------------------------------------------------------------------------
(* The call, step by step *)

Init ==
    /\ pc = "start"
    /\ error = ""
    /\ stages = <<>>
    /\ inventory_tag_id = 0
    /\ spacing = 0
    /\ font_size = 0
    /\ top_padding = 0
    /\ output_svg_path = None
    /\ tag_standard1_id = -1
    /\ tag_standard2_id = -1
    /\ shape1 = <<0, 0>>
    /\ shape2 = <<0, 0>>
    /\ width = 0
    /\ height = 0
    /\ text_height = 0
    /\ rect1 = NoRect
    /\ rect2 = NoRect
    /\ temp_exists = FALSE
    /\ temp_created = FALSE
    /\ svg_base = <<>>
    /\ svg = <<>>
    /\ written = <<>>
    /\ returned = <<>>

Raise(kind) ==
    /\ pc' = "failed"
    /\ error' = kind

Goto(next, done) ==
    /\ pc' = next
    /\ stages' = Append(stages, done)

Call ==
    /\ pc = "start"
    /\ \E c \in Calls :
        /\ inventory_tag_id' = c.id
        /\ spacing' = c.spacing
        /\ font_size' = c.font_size
        /\ top_padding' = c.top_padding
        /\ output_svg_path' = c.path
    /\ pc' = "validate"
    /\ UNCHANGED <<error, stages, tag_standard1_id, tag_standard2_id,
                   shape1, shape2, width, height, text_height, rect1, rect2,
                   temp_exists, temp_created, svg_base, svg, written, returned>>

Validate ==
    /\ pc = "validate"
    /\ IF ValidId(inventory_tag_id)
       THEN Goto("split", "validate") /\ UNCHANGED error
       ELSE Raise("ValueError") /\ UNCHANGED stages
    /\ UNCHANGED <<inventory_tag_id, spacing, font_size, top_padding,
                   output_svg_path, tag_standard1_id, tag_standard2_id,
                   shape1, shape2, width, height, text_height, rect1, rect2,
                   temp_exists, temp_created, svg_base, svg, written, returned>>

Split ==
    /\ pc = "split"
    /\ tag_standard1_id' = Tag1Id(inventory_tag_id)
    /\ tag_standard2_id' = Tag2Id(inventory_tag_id)
    /\ Goto("generate", "split")
    /\ UNCHANGED <<error, inventory_tag_id, spacing, font_size, top_padding,
                   output_svg_path, shape1, shape2, width, height,
                   text_height, rect1, rect2, temp_exists, temp_created,
                   svg_base, svg, written, returned>>

GenerateAndBinarize ==
    /\ pc = "generate"
    /\ \E s1 \in Shapes, s2 \in Shapes :
        /\ shape1' = s1
        /\ shape2' = s2
    /\ Goto("compose", "generate")
    /\ UNCHANGED <<error, inventory_tag_id, spacing, font_size, top_padding,
                   output_svg_path, tag_standard1_id, tag_standard2_id,
                   width, height, text_height, rect1, rect2,
                   temp_exists, temp_created, svg_base, svg, written, returned>>

GenerateRaises ==
    /\ pc = "generate"
    /\ Raise("GeneratorError")
    /\ UNCHANGED <<stages, inventory_tag_id, spacing, font_size, top_padding,
                   output_svg_path, tag_standard1_id, tag_standard2_id,
                   shape1, shape2, width, height, text_height, rect1, rect2,
                   temp_exists, temp_created, svg_base, svg, written, returned>>

Compose ==
    /\ pc = "compose"
    /\ LET h1 == shape1[1]
           w1 == shape1[2]
           h2 == shape2[1]
           w2 == shape2[2]
           w  == CanvasWidth(w1, w2)
           th == TextHeight(font_size)
           h  == CanvasHeight(top_padding, h1, spacing, h2, th)
           r1 == Region(Tag1Top(top_padding), h1, TagX(w, w1), w1, h, w)
           r2 == Region(Tag2Top(top_padding, h1, spacing, th), h2,
                        TagX(w, w2), w2, h, w)
       IN  /\ width' = w
           /\ text_height' = th
           /\ height' = h
           /\ IF h < 0 \/ w < 0
              THEN \* np.ones rejects a negative dimension
                   /\ Raise("ValueError")
                   /\ UNCHANGED <<stages, rect1, rect2>>
              ELSE IF ~AssignOk(r1, h1, w1)
              THEN /\ Raise("ValueError")
                   /\ UNCHANGED <<stages, rect1, rect2>>
              ELSE IF ~AssignOk(r2, h2, w2)
              THEN /\ Raise("ValueError")
                   /\ rect1' = r1
                   /\ UNCHANGED <<stages, rect2>>
              ELSE /\ rect1' = r1
                   /\ rect2' = r2
                   /\ Goto("create_temp", "compose")
                   /\ UNCHANGED error
    /\ UNCHANGED <<inventory_tag_id, spacing, font_size, top_padding,
                   output_svg_path, tag_standard1_id, tag_standard2_id,
                   shape1, shape2, temp_exists, temp_created,
                   svg_base, svg, written, returned>>

CreateTemp ==
    /\ pc = "create_temp"
    /\ temp_exists' = TRUE
    /\ temp_created' = TRUE
    /\ pc' = "imwrite"
    /\ UNCHANGED <<error, stages, inventory_tag_id, spacing, font_size,
                   top_padding, output_svg_path, tag_standard1_id,
                   tag_standard2_id, shape1, shape2, width, height,
                   text_height, rect1, rect2, svg_base, svg, written, returned>>

ImWrite ==
    /\ pc = "imwrite"
    /\ pc' = "vectorize"
    /\ UNCHANGED <<error, stages, inventory_tag_id, spacing, font_size,
                   top_padding, output_svg_path, tag_standard1_id,
                   tag_standard2_id, shape1, shape2, width, height,
                   text_height, rect1, rect2, temp_exists, temp_created,
                   svg_base, svg, written, returned>>

\* an exception leaves the with block, which closes the file and keeps it
\* (delete=False)
ImWriteRaises ==
    /\ pc = "imwrite"
    /\ Raise("cv2.error")
    /\ UNCHANGED <<stages, inventory_tag_id, spacing, font_size,
                   top_padding, output_svg_path, tag_standard1_id,
                   tag_standard2_id, shape1, shape2, width, height,
                   text_height, rect1, rect2, temp_exists, temp_created,
                   svg_base, svg, written, returned>>

Vectorize ==
    /\ pc = "vectorize"
    /\ \E d \in Docs : svg_base' = d
    /\ Goto("unlink", "vectorize")
    /\ UNCHANGED <<error, inventory_tag_id, spacing, font_size,
                   top_padding, output_svg_path, tag_standard1_id,
                   tag_standard2_id, shape1, shape2, width, height,
                   text_height, rect1, rect2, temp_exists, temp_created,
                   svg, written, returned>>

\* variant: the vectorizer's exception swallowed, the call carries on
VectorizeRaises_Swallowed ==
    /\ pc = "vectorize"
    /\ pc' = "unlink"
    /\ error' = "VectorizerError"
    /\ UNCHANGED <<stages, inventory_tag_id, spacing, font_size,
                   top_padding, output_svg_path, tag_standard1_id,
                   tag_standard2_id, shape1, shape2, width, height,
                   text_height, rect1, rect2, temp_exists, temp_created,
                   svg_base, svg, written, returned>>

VectorizeRaises ==
    /\ pc = "vectorize"
    /\ Raise("VectorizerError")
    /\ UNCHANGED <<stages, inventory_tag_id, spacing, font_size,
                   top_padding, output_svg_path, tag_standard1_id,
                   tag_standard2_id, shape1, shape2, width, height,
                   text_height, rect1, rect2, temp_exists, temp_created,
                   svg_base, svg, written, returned>>

Unlink ==
    /\ pc = "unlink"
    /\ temp_exists' = FALSE
    /\ pc' = "inject"
    /\ UNCHANGED <<error, stages, inventory_tag_id, spacing, font_size,
                   top_padding, output_svg_path, tag_standard1_id,
                   tag_standard2_id, shape1, shape2, width, height,
                   text_height, rect1, rect2, temp_created,
                   svg_base, svg, written, returned>>

Inject ==
    /\ pc = "inject"
    /\ svg' = InjectLabel(svg_base, LabelX(width),
                          LabelY(top_padding, shape1[1], spacing,
                                 text_height, shape2[1]),
                          LabelFontSize(font_size), inventory_tag_id)
    /\ Goto("persist", "inject")
    /\ UNCHANGED <<error, inventory_tag_id, spacing, font_size,
                   top_padding, output_svg_path, tag_standard1_id,
                   tag_standard2_id, shape1, shape2, width, height,
                   text_height, rect1, rect2, temp_exists, temp_created,
                   svg_base, written, returned>>

Persist ==
    /\ pc = "persist"
    /\ written' = IF output_svg_path # None THEN Append(written, svg)
                  ELSE written
    /\ pc' = "return"
    /\ UNCHANGED <<error, stages, inventory_tag_id, spacing, font_size,
                   top_padding, output_svg_path, tag_standard1_id,
                   tag_standard2_id, shape1, shape2, width, height,
                   text_height, rect1, rect2, temp_exists, temp_created,
                   svg_base, svg, returned>>

Return ==
    /\ pc = "return"
    /\ returned' = Append(returned, svg)
    /\ pc' = "done"
    /\ UNCHANGED <<error, stages, inventory_tag_id, spacing, font_size,
                   top_padding, output_svg_path, tag_standard1_id,
                   tag_standard2_id, shape1, shape2, width, height,
                   text_height, rect1, rect2, temp_exists, temp_created,
                   svg_base, svg, written>>

Next ==
    \/ Call
    \/ Validate
    \/ Split
    \/ GenerateAndBinarize
    \/ GenerateRaises
    \/ Compose
    \/ CreateTemp
    \/ ImWrite
    \/ ImWriteRaises
    \/ Vectorize
    \/ VectorizeRaises
    \/ Unlink
    \/ Inject
    \/ Persist
    \/ Return

Spec == Init /\ [][Next]_vars

-----------------------------------------------------------------------------
(* Vocabulary of the properties *)

Completed(stage) == \E i \in 1..Len(stages) : stages[i] = stage

Count(doc, tok) == Cardinality({i \in 1..Len(doc) : doc[i] = tok})

HasClosingTag(doc) == Count(doc, "</svg>") > 0

LastClosingTag(doc) ==
    CHOOSE i \in 1..Len(doc) :
        /\ doc[i] = "</svg>"
        /\ \A j \in (i + 1)..Len(doc) : doc[j] # "</svg>"

WellTerminated(doc) ==
    /\ Count(doc, "</svg>") = 1
    /\ Len(doc) > 0
    /\ doc[Len(doc)] = "</svg>"

AllStages == <<"validate", "split", "generate", "compose", "vectorize", "inject">>

\* Compose has computed the layout (it may then have raised)
Composed == Len(stages) >= 3 /\ pc # "compose"

NonNegativeParams == spacing >= 0 /\ top_padding >= 0 /\ font_size >= 0

\* bottom row (exclusive) of marker B as the layout places it
MarkerBBottom ==
    top_padding + shape1[1] + spacing + (font_size + 20) + shape2[1]

AnchorY == MarkerBBottom + (font_size + 20) + 10

ExpectedLabel ==
    <<"<!-- Text Labels -->", "<text>",
      ToString((Max(shape1[2], shape2[2]) + 200) \div 2),
      ToString(AnchorY), ToString(2 * font_size),
      ToString(inventory_tag_id), "</text>">>

-----------------------------------------------------------------------------
(* C1: for every id in [0, A_COUNT*B_COUNT) the split gives                *)
(* indexA = id div B_COUNT in [0, A_COUNT) and indexB = id mod B_COUNT in  *)
(* [0, B_COUNT) with indexA*B_COUNT + indexB = id; no other valid id has   *)
(* the same pair; 0 splits to (0,0) and N-1 to (A_COUNT-1, B_COUNT-1).     *)
C1_SplitBijective ==
    Completed("split") =>
        /\ 0 <= tag_standard1_id /\ tag_standard1_id < 2115
        /\ 0 <= tag_standard2_id /\ tag_standard2_id < 48714
        /\ tag_standard1_id * 48714 + tag_standard2_id = inventory_tag_id
        /\ \A j \in IdInputs :
              (0 <= j /\ j < 2115 * 48714 /\ j # inventory_tag_id) =>
                  <<Tag1Id(j), Tag2Id(j)>>
                      # <<tag_standard1_id, tag_standard2_id>>
        /\ inventory_tag_id = 0 =>
              tag_standard1_id = 0 /\ tag_standard2_id = 0
        /\ inventory_tag_id = 2115 * 48714 - 1 =>
              tag_standard1_id = 2114 /\ tag_standard2_id = 48713

C1_Witness ==
    /\ Completed("split")
    /\ inventory_tag_id = 2115 * 48714 - 1

(* C2: an id below 0 or at least A_COUNT*B_COUNT is rejected with a range  *)
(* error at entry: the call never gets past validation, generates no       *)
(* marker, creates no temporary file and writes or returns nothing.        *)
C2_RangeErrorAtEntry ==
    (pc # "start" /\ (inventory_tag_id < 0 \/ inventory_tag_id >= 2115 * 48714)) =>
        /\ pc \in {"validate", "failed"}
        /\ pc = "failed" => error = "ValueError"
        /\ stages = <<>>
        /\ tag_standard1_id = -1 /\ tag_standard2_id = -1
        /\ shape1 = <<0, 0>> /\ shape2 = <<0, 0>>
        /\ ~temp_created /\ ~temp_exists
        /\ written = <<>> /\ returned = <<>>

C2_Witness ==
    /\ pc = "failed"
    /\ error = "ValueError"
    /\ inventory_tag_id = 2115 * 48714

(* C3: whenever the call has ended, by returning or by raising, the        *)
(* temporary raster file no longer exists.                                 *)
C3_TempFileDeletedOnExit ==
    pc \in {"done", "failed"} => ~temp_exists

(* C4: when the vectorizer's document holds no closing tag, the call       *)
(* fails: it does not go on to persist or return a document.               *)
C4_MalformedDocumentRejected ==
    (Completed("vectorize") /\ ~HasClosingTag(svg_base)) =>
        /\ pc \notin {"persist", "return", "done"}
        /\ written = <<>>
        /\ returned = <<>>

(* C5: the stages run once each in the fixed order; a call that failed     *)
(* has written and returned nothing; a document is written or returned     *)
(* only after every stage completed without error, and it is the           *)
(* labelled document.                                                      *)
C5_NoArtifactOnFailure ==
    /\ Len(stages) <= Len(AllStages)
    /\ stages = SubSeq(AllStages, 1, Len(stages))
    /\ pc = "failed" => written = <<>> /\ returned = <<>>
    /\ Len(written) <= 1 /\ Len(returned) <= 1
    /\ (written # <<>> \/ returned # <<>>) =>
          /\ stages = AllStages
          /\ error = ""
          /\ ~temp_exists
          /\ Count(svg, "<text>") = Count(svg_base, "<text>") + 1
    /\ written # <<>> => written[1] = svg /\ output_svg_path # None
    /\ returned # <<>> => returned[1] = svg

C5_Witness ==
    /\ pc = "failed"
    /\ error = "VectorizerError"
    /\ output_svg_path # None
    /\ stages = SubSeq(AllStages, 1, 4)

(* C6: a negative canvas height or a negative vertical placement offset    *)
(* makes the composer fail; composition never completes.                   *)
C6_NegativeLayoutFails ==
    (/\ Composed
     /\ \/ top_padding + shape1[1] + spacing + shape2[1]
             + 4 * (font_size + 20) < 0
        \/ top_padding < 0
        \/ top_padding + shape1[1] + spacing + (font_size + 20) < 0)
    => (pc = "failed" /\ ~Completed("compose"))

(* C7: for non-negative spacing, padding and font size the label's top     *)
(* edge anchorY - 2*fontSize is at or below marker B's bottom row and      *)
(* anchorY is less than the canvas height.                                 *)
C7_LabelClearOfMarkerB ==
    (Completed("inject") /\ NonNegativeParams) =>
        /\ Count(svg, ToString(AnchorY)) > 0
        /\ AnchorY - 2 * font_size >= MarkerBBottom
        /\ AnchorY < height

(* C8 as claimed: whenever the input holds the closing tag, the output     *)
(* has one more text element and the closing tag exactly once, at the end. *)
C8_ClosingTagOnceAtEnd ==
    (Completed("inject") /\ HasClosingTag(svg_base)) =>
        /\ Count(svg, "<text>") = Count(svg_base, "<text>") + 1
        /\ WellTerminated(svg)

(* C8 amended: whenever the input holds the closing tag, the label is      *)
(* inserted immediately before its last occurrence and nothing else        *)
(* changes: one more text element, the same number of closing tags, the    *)
(* same text before and from the last closing tag on; an input with the    *)
(* closing tag once at the end gives such an output; a second application  *)
(* adds a second label.                                                    *)
C8_LabelBeforeLastClosingTag ==
    (Completed("inject") /\ HasClosingTag(svg_base)) =>
        LET p == LastClosingTag(svg_base)
            n == Len(ExpectedLabel)
            again == InjectLabel(svg, LabelX(width), AnchorY,
                                 2 * font_size, inventory_tag_id)
        IN  /\ Len(svg) = Len(svg_base) + n
            /\ Count(svg, "<text>") = Count(svg_base, "<text>") + 1
            /\ SubSeq(svg, 1, p - 1) = SubSeq(svg_base, 1, p - 1)
            /\ SubSeq(svg, p, p + n - 1) = ExpectedLabel
            /\ SubSeq(svg, p + n, Len(svg))
                   = SubSeq(svg_base, p, Len(svg_base))
            /\ Count(svg, "</svg>") = Count(svg_base, "</svg>")
            /\ WellTerminated(svg_base) => WellTerminated(svg)
            /\ again # svg
            /\ Count(again, "<text>") = Count(svg_base, "<text>") + 2

C8_Witness ==
    /\ Completed("inject")
    /\ Count(svg_base, "</svg>") = 2
    /\ Count(svg, "<text>") = 1

(* C9: the canvas width is max(widthA, widthB) + 200 and the height is     *)
(* topPadding + heightA + spacing + heightB + 4*(fontSize + 20); with a    *)
(* non-negative padding it exceeds heightA + heightB + spacing by at       *)
(* least 4*(fontSize + 20); with the defaults it is                        *)
(* 50 + heightA + 50 + heightB + 240.                                      *)
C9_CanvasSize ==
    Composed =>
        /\ width = Max(shape1[2], shape2[2]) + 200
        /\ height = top_padding + shape1[1] + spacing + shape2[1]
                        + 4 * (font_size + 20)
        /\ top_padding >= 0 =>
              height - (shape1[1] + shape2[1] + spacing)
                  >= 4 * (font_size + 20)
        /\ (spacing = 50 /\ font_size = 40 /\ top_padding = 50) =>
              height = 50 + shape1[1] + 50 + shape2[1] + 240

C9_Witness ==
    /\ Completed("compose")
    /\ spacing = 50 /\ font_size = 40 /\ top_padding = 50
    /\ shape1[2] < shape2[2]

(* C10: for non-negative spacing, padding and font size composition        *)
(* succeeds and both markers lie inside the canvas without overlapping:    *)
(* A on rows [topPadding, topPadding + heightA), B on rows starting at     *)
(* topPadding + heightA + spacing + textHeightUnit, each on columns        *)
(* starting at (canvasWidth - markerWidth) div 2 >= 100.                   *)
C10_MarkersInsideCanvas ==
    (Composed /\ NonNegativeParams) =>
        LET h1 == shape1[1]
            w1 == shape1[2]
            h2 == shape2[1]
            w2 == shape2[2]
            W  == Max(w1, w2) + 200
            H  == top_padding + h1 + spacing + h2 + 4 * (font_size + 20)
            x1 == (W - w1) \div 2
            x2 == (W - w2) \div 2
            y2 == top_padding + h1 + spacing + (font_size + 20)
        IN  /\ Completed("compose")
            /\ rect1 = [r0 |-> top_padding, r1 |-> top_padding + h1,
                        c0 |-> x1, c1 |-> x1 + w1]
            /\ rect2 = [r0 |-> y2, r1 |-> y2 + h2,
                        c0 |-> x2, c1 |-> x2 + w2]
            /\ x1 >= 100 /\ x2 >= 100
            /\ 0 <= rect1.r0 /\ rect1.r1 <= H
            /\ 0 <= rect1.c0 /\ rect1.c1 <= W
            /\ 0 <= rect2.r0 /\ rect2.r1 <= H
            /\ 0 <= rect2.c0 /\ rect2.c1 <= W
            /\ rect2.r0 >= rect1.r1

C10_Witness ==
    /\ Completed("compose")
    /\ NonNegativeParams
    /\ shape1[2] # shape2[2]
    /\ rect2.r0 > rect1.r1

====
